---- MODULE Spec2Model ----
(***************************************************************************)
(* Model of the time-lapse capture programs:                               *)
(*   src/stream-frame-capture.js  - the per-stream capture loops, the      *)
(*                                  immediate-retry controller and the     *)
(*                                  calendar policy getNextCheckTime();    *)
(*   src/time-lapse-recorder.js   - the interval driven recorder with its  *)
(*                                  availability check.                    *)
(*                                                                         *)
(* Time.  Instants are whole minutes since Sunday 00:00 UTC of the first   *)
(* week; durations handed to setTimeout are milliseconds.  A JavaScript    *)
(* Date is an instant; its getDay/getHours/getMinutes fields are taken in  *)
(* the host's time zone, whose getTimezoneOffset() is tz (minutes,         *)
(* UTC minus local time).                                                  *)
(*                                                                         *)
(* Atomicity.  Node runs one event handler at a time and drains the        *)
(* promise continuations it made runnable before the next handler, so one  *)
(* action is one handler (process close, timer, input line) together with  *)
(* the continuations of the async functions it resumes, up to their next   *)
(* await of a timer or of a process.                                       *)
(***************************************************************************)
EXTENDS Integers, FiniteSets, Sequences, TLC

\* ----------------------------------------------------------------- bounds
NumStreams == 2
NumInvocations == 2
QualityMargin == 10

\* -------------------------------------------- stream-frame-capture.js config
captureInterval == 60000
kharkivOffset == 180
workingHoursStart == 12
workingHoursEnd == 19
morningCheckTime == 10
postWorkingHoursChecks == 3
postWorkingHoursInterval == 5 * 60000
maxRetries == 3
retryDelay == 5000

msPerMinute == 60000
minutesPerDay == 24 * 60

Streams == 1..NumStreams

\* Host time zones the program may run in (values of getTimezoneOffset()):
\* UTC+14, UTC+3 (the target zone itself), UTC, UTC-5.
HostTimezoneOffsets == {-840, -180, 0, 300}

\* Clock readings (values of Date.now(), in minutes): every hour of two UTC
\* days, Monday and Tuesday, at the minutes on both sides of the thresholds
\* of the calendar policy.  In the target zone they run from Monday 03:00 to
\* Wednesday 02:59.
MinuteSamples == {0, 29, 30, 59}
ClockReadings == { d * minutesPerDay + h * 60 + m : d \in {1, 2}, h \in 0..23, m \in MinuteSamples }

\* The readings used where only the branch of the calendar policy matters
\* (what becomes of postWorkingHoursCheckCount), not the delay to the minute:
\* every fourth hour of the two days, which in the target zone are 03:00,
\* 07:00, 11:00, 15:00, 19:00 and 23:00 and so meet every branch of
\* getNextCheckTime().
LoopClockReadings == { t \in ClockReadings : t % 240 = 0 }

VARIABLES
  \* ---- stream-frame-capture.js
  isCapturing,                 \* let isCapturing
  postWorkingHoursCheckCount,  \* let postWorkingHoursCheckCount (module global)
  pc,                          \* per stream: where its captureAndSchedule loop is
  retries,                     \* per stream: captureWithRetry's retries argument
  attempts,                    \* per stream: grabbers spawned in the current cycle
  waited,                      \* per stream: retry delays waited in the current cycle (ms)
  success,                     \* per stream: result of the last completed cycle
  procs,                       \* per stream: running ffmpeg processes
  timers,                      \* per stream: pending setTimeout(captureAndSchedule)
  fileExists,                  \* per stream: a file is at the last attempt's outputPath
  \* ---- one loop's scheduling decisions, with the clock it read
  decision,
  \* ---- two runs of the loops side by side (same clock, same outcomes of stream 1)
  runCount,                    \* per run: postWorkingHoursCheckCount
  runDelay,                    \* per run: the delay last given to stream 1
  \* ---- time-lapse-recorder.js, per invocation of captureFrame
  recIsCapturing,              \* let isCapturing; false once stopCapture has exited the process
  rpc,                         \* where the invocation is
  checkProc,                   \* the availability check's ffmpeg
  checkTimer,                  \* the check's setTimeout is pending
  available,                   \* the promise of checkStreamAvailability
  tempFile,                    \* temp_check.jpg exists
  outFile,                     \* a file is at the invocation's outputPath
  captured,                    \* what the capture's close handler reported
  \* ---- one cycle of a loop, with the time it took and the clock it read
  cycle,
  \* ---- the '-q:v' argument last handed to an ffmpeg that captures a frame
  grabberArgs

captureVars == <<isCapturing, postWorkingHoursCheckCount, pc, retries,
                 attempts, waited, success, procs, timers, fileExists>>
loopVars == <<isCapturing, pc, retries, attempts, waited, success, procs, timers, fileExists>>
pairVars == <<runCount, runDelay>>
recorderVars == <<recIsCapturing, rpc, checkProc, checkTimer, available, tempFile, outFile, captured>>

vars == <<captureVars, decision, pairVars, recorderVars, cycle, grabberArgs>>

\* ------------------------------------------------------------ Date arithmetic
\* Fields of a Date in the host's zone.
LocalMinutes(t, tz) == t - tz
getDay(t, tz) == (LocalMinutes(t, tz) \div minutesPerDay) % 7
getHours(t, tz) == (LocalMinutes(t, tz) % minutesPerDay) \div 60
getMinutes(t, tz) == LocalMinutes(t, tz) % 60

\* Variant that leaves out the host's offset.
getKharkivTimeIgnoringHost(now, tz) == now + kharkivOffset

\* new Date(now.getTime() + (kharkivOffset + now.getTimezoneOffset()) * 60000)
getKharkivTime(now, tz) == now + (kharkivOffset + tz)

isWorkingDay(now, tz) == getDay(getKharkivTime(now, tz), tz) # 1

\* nextDay.setDate(nextDay.getDate() + 1); nextDay.setHours(morningCheckTime, 0, 0, 0)
\* The fields are set in the host's zone; the result is the instant they name.
NextDayMorning(t, tz) ==
  ((LocalMinutes(t, tz) \div minutesPerDay) + 1) * minutesPerDay + morningCheckTime * 60 + tz

\* The post-working-hours branch, the same on working days and on Monday.
AfterWorkingHours(now, tz, count) ==
  IF count < postWorkingHoursChecks
  THEN [delay |-> postWorkingHoursInterval, count |-> count + 1]
  ELSE [delay |-> (NextDayMorning(getKharkivTime(now, tz), tz) - now) * msPerMinute,
        count |-> 0]

\* getNextCheckTime() called at instant now on a host with offset tz: the delay
\* returned and the value it leaves in postWorkingHoursCheckCount.
getNextCheckTime(now, tz, count) ==
  LET kharkivTime == getKharkivTime(now, tz)
      currentHour == getHours(kharkivTime, tz)
      currentMinute == getMinutes(kharkivTime, tz)
      timeUntilStart == (workingHoursStart - currentHour) * 60 - currentMinute
  IN IF isWorkingDay(now, tz)
     THEN IF currentHour >= workingHoursEnd
          THEN AfterWorkingHours(now, tz, count)
          ELSE IF currentHour < morningCheckTime
          THEN [delay |-> (morningCheckTime - currentHour) * 3600000 - currentMinute * 60000,
                count |-> count]
          ELSE IF currentHour < workingHoursStart
          THEN [delay |-> IF timeUntilStart <= 30 THEN 5 * 60000
                          ELSE IF timeUntilStart <= 60 THEN 15 * 60000
                          ELSE 30 * 60000,
                count |-> count]
          ELSE [delay |-> captureInterval, count |-> count]
     ELSE IF currentHour >= workingHoursEnd
          THEN AfterWorkingHours(now, tz, count)
          ELSE [delay |-> 3600000, count |-> count]

\* A cycle that succeeded: captureWithRetry has reset the counter and
\* captureAndSchedule waits captureInterval.
SuccessDecision == [delay |-> captureInterval, count |-> 0]

\* captureAndSchedule's delay decision once captureWithRetry has returned ok.
DelayDecision(ok, now, tz, count) ==
  IF ok THEN SuccessDecision ELSE getNextCheckTime(now, tz, count)

\* ------------------------------------------------------- the capture loops
\* pc[s] is "grabbing"  (captureFrame awaits the close of its ffmpeg),
\*          "retrywait" (captureWithRetry awaits its retryDelay timer),
\*          "sleeping"  (the cycle is over, the next-cycle timer is pending),
\*          "done"      (captureAndSchedule returned without rescheduling).

\* The close handler's verdict: code === 0 && fs.existsSync(outputPath)
CloseOutcome(code, exists) == code = 0 /\ exists

\* After a failed attempt the close handler unlinks the file if it exists.
FileAfterClose(code, exists) == IF CloseOutcome(code, exists) THEN exists ELSE FALSE

\* Variant with the comparison off by one.
RetryAllowedInclusive(r) == r <= maxRetries

\* captureWithRetry: retries < maxRetries
RetryAllowed(r) == r < maxRetries

\* Variant in which the timer is set twice.
SetTimeoutTwice(tm, s) == [tm EXCEPT ![s] = @ + 2]

\* setTimeout(captureAndSchedule, nextCheckTime)
SetTimeout(tm, s) == [tm EXCEPT ![s] = @ + 1]

\* spawn('ffmpeg', ffmpegArgs)
Spawn(pr, s) == [pr EXCEPT ![s] = @ + 1]

\* Variant that reschedules only after a successful cycle.
FinishCycleSuccessOnly(s, ok, d) ==
  /\ postWorkingHoursCheckCount' = d.count
  /\ success' = [success EXCEPT ![s] = ok]
  /\ timers' = IF ok THEN SetTimeout(timers, s) ELSE timers
  /\ pc' = [pc EXCEPT ![s] = IF ok THEN "sleeping" ELSE "done"]

\* The rest of captureAndSchedule once captureWithRetry has returned ok; d is
\* its delay decision.
FinishCycle(s, ok, d) ==
  /\ postWorkingHoursCheckCount' = d.count
  /\ success' = [success EXCEPT ![s] = ok]
  /\ timers' = SetTimeout(timers, s)
  /\ pc' = [pc EXCEPT ![s] = "sleeping"]

\* captureWithRetry after the attempt with retries = r failed: wait retryDelay
\* and try again, or return false, on which captureAndSchedule reads the
\* clock in getNextCheckTime() and schedules the next cycle.
AfterFailedAttempt(s, r) ==
  IF RetryAllowed(r)
  THEN /\ pc' = [pc EXCEPT ![s] = "retrywait"]
       /\ UNCHANGED <<postWorkingHoursCheckCount, success, timers>>
  ELSE \E now \in LoopClockReadings, tz \in HostTimezoneOffsets :
         FinishCycle(s, FALSE, DelayDecision(FALSE, now, tz, postWorkingHoursCheckCount))

\* The 'close' event of stream s's ffmpeg: exit status code, and whether the
\* process left a file at outputPath.
captureFrameClose(s) ==
  /\ pc[s] = "grabbing"
  /\ procs[s] > 0
  /\ \E code \in {0, 1}, wrote \in BOOLEAN :
       /\ procs' = [procs EXCEPT ![s] = @ - 1]
       /\ fileExists' = [fileExists EXCEPT ![s] = FileAfterClose(code, wrote)]
       /\ IF CloseOutcome(code, wrote)
          THEN FinishCycle(s, TRUE, SuccessDecision)
          ELSE AfterFailedAttempt(s, retries[s])
  /\ UNCHANGED <<isCapturing, retries, attempts, waited>>
  /\ UNCHANGED <<decision, pairVars, recorderVars, cycle, grabberArgs>>

\* Variant in which captureFrame does not look at isCapturing.
captureWithRetryTimerUnguarded(s) ==
  /\ pc[s] = "retrywait"
  /\ retries' = [retries EXCEPT ![s] = @ + 1]
  /\ waited' = [waited EXCEPT ![s] = @ + retryDelay]
  /\ procs' = Spawn(procs, s)
  /\ attempts' = [attempts EXCEPT ![s] = @ + 1]
  /\ fileExists' = [fileExists EXCEPT ![s] = FALSE]
  /\ pc' = [pc EXCEPT ![s] = "grabbing"]
  /\ UNCHANGED <<isCapturing, postWorkingHoursCheckCount, success, timers>>
  /\ UNCHANGED <<decision, pairVars, recorderVars, cycle, grabberArgs>>

\* The retry timer of stream s fires: captureWithRetry(streamUrl, retries + 1).
\* captureFrame returns false at once when isCapturing is false.
captureWithRetryTimer(s) ==
  /\ pc[s] = "retrywait"
  /\ retries' = [retries EXCEPT ![s] = @ + 1]
  /\ waited' = [waited EXCEPT ![s] = @ + retryDelay]
  /\ IF isCapturing
     THEN /\ procs' = Spawn(procs, s)
          /\ attempts' = [attempts EXCEPT ![s] = @ + 1]
          /\ fileExists' = [fileExists EXCEPT ![s] = FALSE]
          /\ pc' = [pc EXCEPT ![s] = "grabbing"]
          /\ UNCHANGED <<postWorkingHoursCheckCount, success, timers>>
     ELSE /\ AfterFailedAttempt(s, retries[s] + 1)
          /\ UNCHANGED <<procs, attempts, fileExists>>
  /\ UNCHANGED isCapturing
  /\ UNCHANGED <<decision, pairVars, recorderVars, cycle, grabberArgs>>

\* The next-cycle timer of stream s fires: captureAndSchedule().
captureAndSchedule(s) ==
  /\ pc[s] = "sleeping"
  /\ timers[s] > 0
  /\ timers' = [timers EXCEPT ![s] = @ - 1]
  /\ IF ~isCapturing
     THEN /\ pc' = [pc EXCEPT ![s] = "done"]
          /\ UNCHANGED <<retries, attempts, waited, procs, fileExists>>
     ELSE /\ retries' = [retries EXCEPT ![s] = 0]
          /\ attempts' = [attempts EXCEPT ![s] = 1]
          /\ waited' = [waited EXCEPT ![s] = 0]
          /\ procs' = Spawn(procs, s)
          /\ fileExists' = [fileExists EXCEPT ![s] = FALSE]
          /\ pc' = [pc EXCEPT ![s] = "grabbing"]
  /\ UNCHANGED <<isCapturing, postWorkingHoursCheckCount, success>>
  /\ UNCHANGED <<decision, pairVars, recorderVars, cycle, grabberArgs>>

\* rl.on('line'): the operator types "stop"; rl.close() ends the input.
stopCapture ==
  /\ isCapturing
  /\ isCapturing' = FALSE
  /\ UNCHANGED <<postWorkingHoursCheckCount, pc, retries, attempts, waited,
                 success, procs, timers, fileExists>>
  /\ UNCHANGED <<decision, pairVars, recorderVars, cycle, grabberArgs>>

\* After the module body has run: streams.forEach(startCapture) has called
\* captureAndSchedule for every stream, which ran up to the spawn of its
\* first ffmpeg.
CaptureInit ==
  /\ isCapturing = TRUE
  /\ postWorkingHoursCheckCount = 0
  /\ pc = [s \in Streams |-> "grabbing"]
  /\ retries = [s \in Streams |-> 0]
  /\ attempts = [s \in Streams |-> 1]
  /\ waited = [s \in Streams |-> 0]
  /\ success = [s \in Streams |-> FALSE]
  /\ procs = [s \in Streams |-> 1]
  /\ timers = [s \in Streams |-> 0]
  /\ fileExists = [s \in Streams |-> FALSE]

\* ------------------------------------- one loop's decisions, clock recorded
\* The end of a cycle of one loop (captureAndSchedule after its await): the
\* clock reading, the host's offset, the outcome of captureWithRetry, the
\* counter before, and the delay handed to setTimeout.  Between two cycles an
\* arbitrary time may pass (an ffmpeg runs as long as it likes), so any clock
\* reading may follow any other.
NoDecision == [made |-> FALSE, ok |-> FALSE, now |-> 0, tz |-> 0, countBefore |-> 0, delay |-> 0]

CycleEnds(ok) ==
  /\ \E now \in ClockReadings, tz \in HostTimezoneOffsets :
       LET d == DelayDecision(ok, now, tz, postWorkingHoursCheckCount)
       IN /\ decision' = [made |-> TRUE, ok |-> ok, now |-> now, tz |-> tz,
                          countBefore |-> postWorkingHoursCheckCount, delay |-> d.delay]
          /\ postWorkingHoursCheckCount' = d.count
  /\ UNCHANGED <<loopVars, pairVars, recorderVars, cycle, grabberArgs>>

CalendarNext ==
  \/ CycleEnds(TRUE)
  \/ CycleEnds(FALSE)

\* --------------------------------------- one loop's cycles, with their length
\* The time the ffmpeg processes of one cycle ran, all attempts together (ms).
GrabberRunTimes == {2000, 30000, 70000}

NoCycle == [made |-> FALSE, ok |-> FALSE, retries |-> 0, elapsed |-> 0,
            now |-> 0, tz |-> 0, delay |-> 0]

\* A whole cycle of captureAndSchedule, from its call of captureWithRetry to
\* its setTimeout: the initial attempt and n retries, each retry after a wait
\* of retryDelay, the last attempt returning ok.  elapsed is the time from the
\* start of the cycle to the delay decision, now the clock reading then.
CycleTakes(n, ok) ==
  /\ \E now \in LoopClockReadings, tz \in HostTimezoneOffsets, ran \in GrabberRunTimes :
       LET d == DelayDecision(ok, now, tz, postWorkingHoursCheckCount)
       IN /\ cycle' = [made |-> TRUE, ok |-> ok, retries |-> n,
                       elapsed |-> n * retryDelay + ran,
                       now |-> now, tz |-> tz, delay |-> d.delay]
          /\ postWorkingHoursCheckCount' = d.count
  /\ UNCHANGED <<loopVars, decision, pairVars, recorderVars, grabberArgs>>

\* A cycle succeeds at any attempt and fails only with its retries exhausted.
CycleNext ==
  \/ \E n \in 0..maxRetries : CycleTakes(n, TRUE)
  \/ CycleTakes(maxRetries, FALSE)

\* ------------------------------------------------------ the quality argument
\* The values the jpegQuality setting may be given.
Qualities == (0 - QualityMargin)..(100 + QualityMargin)

\* quality = Math.max(0, Math.min(100, quality))
ClampQuality(quality) ==
  IF quality > 100 THEN 100 ELSE IF quality < 0 THEN 0 ELSE quality

\* Math.round(x) is floor(x + 1/2); here x = (100 - quality) * 29 / 100 + 2,
\* so x + 1/2 = (58 * (100 - quality) + 500) / 200.  (The only quality for
\* which x ends in .5 is 50, where the operations in floating point are
\* exact.)
convertJpegQuality(quality) ==
  (58 * (100 - ClampQuality(quality)) + 500) \div 200

NoArgs == [by |-> "none", quality |-> 0, qv |-> 0]

\* stream-frame-capture.js, captureFrame with jpegQuality set to q:
\* '-q:v', convertJpegQuality(jpegQuality).toString()
captureFrameArgs(q) ==
  /\ grabberArgs' = [by |-> "stream-frame-capture", quality |-> q,
                     qv |-> convertJpegQuality(q)]
  /\ UNCHANGED <<captureVars, decision, pairVars, recorderVars, cycle>>

\* time-lapse-recorder.js, captureFrame with jpegQuality set to q:
\* '-q:v', jpegQuality.toString()
recorderCaptureFrameArgs(q) ==
  /\ grabberArgs' = [by |-> "time-lapse-recorder", quality |-> q, qv |-> q]
  /\ UNCHANGED <<captureVars, decision, pairVars, recorderVars, cycle>>

QualityNext ==
  \/ \E q \in Qualities : captureFrameArgs(q)
  \/ \E q \in Qualities : recorderCaptureFrameArgs(q)

\* ---------------------------------------------------- two runs side by side
\* Two runs of the program on the same host with the same clock readings, in
\* which stream 1's captures have the same outcomes and the other streams'
\* captures may differ.  Each run has its own postWorkingHoursCheckCount.
Runs == {1, 2}

\* Stream 1 ends a cycle, with the same outcome ok in both runs.
OwnCycleEnds(ok) ==
  /\ \E now \in LoopClockReadings, tz \in HostTimezoneOffsets :
       /\ runCount' = [r \in Runs |-> DelayDecision(ok, now, tz, runCount[r]).count]
       /\ runDelay' = [r \in Runs |-> DelayDecision(ok, now, tz, runCount[r]).delay]
  /\ UNCHANGED <<captureVars, decision, recorderVars, cycle, grabberArgs>>

\* Another stream ends a cycle, with outcome ok1 in run 1 and ok2 in run 2.
OtherCycleEnds(ok1, ok2) ==
  /\ \E now \in LoopClockReadings, tz \in HostTimezoneOffsets :
       runCount' = [r \in Runs |->
                      DelayDecision(IF r = 1 THEN ok1 ELSE ok2, now, tz, runCount[r]).count]
  /\ UNCHANGED runDelay
  /\ UNCHANGED <<captureVars, decision, recorderVars, cycle, grabberArgs>>

PairInit ==
  /\ runCount = [r \in Runs |-> 0]
  /\ runDelay = [r \in Runs |-> 0]

PairNext ==
  \/ \E ok \in BOOLEAN : OwnCycleEnds(ok)
  \/ \E ok1, ok2 \in BOOLEAN : OtherCycleEnds(ok1, ok2)

\* ------------------------------------------------- time-lapse-recorder.js
\* An invocation of captureFrame(streamUrl): by startCapture's forEach or by
\* a tick of a stream's setInterval.  rpc[c] is
\*   "idle"      not invoked yet,
\*   "checking"  awaiting checkStreamAvailability,
\*   "capturing" the capture's ffmpeg is running (captureFrame has returned),
\*   "done".
\* checkProc[c] is "none", "running", "written" (running, having written
\* temp_check.jpg), "exited0" / "exitedErr" / "killed" (the process is gone,
\* its 'close' event not handled yet), "closed" (the handler has run).
Invocations == 1..NumInvocations

\* Variant in which a later resolve overrides an earlier one.
ResolveLastWins(cur, v) == v

\* resolve(v) of a promise: only the first call settles it.
Resolve(cur, v) == IF cur = "pending" THEN v ELSE cur

\* The close handler's verdict: code === 0 && fs.existsSync(tempOutputPath)
CheckOutcome(proc, exists) == proc = "exited0" /\ exists

\* ffmpeg.kill('SIGKILL'): ends a running process, does nothing to one that
\* has exited.
Kill(proc) == IF proc \in {"running", "written"} THEN "killed" ELSE proc

\* captureFrame resumes when the promise it awaits settles (before = "pending"):
\* it returns when the stream is not available, otherwise spawns the capture.
ResumeCaptureFrame(c, before, after) ==
  rpc' = IF before = "pending"
         THEN [rpc EXCEPT ![c] = IF after = "true" THEN "capturing" ELSE "done"]
         ELSE rpc

\* captureFrame(streamUrl) is invoked: checkStreamAvailability spawns its
\* ffmpeg and sets its timeout.
recorderCaptureFrame(c) ==
  /\ recIsCapturing
  /\ rpc[c] = "idle"
  /\ c = 1 \/ rpc[c - 1] # "idle"
  /\ rpc' = [rpc EXCEPT ![c] = "checking"]
  /\ checkProc' = [checkProc EXCEPT ![c] = "running"]
  /\ checkTimer' = [checkTimer EXCEPT ![c] = TRUE]
  /\ UNCHANGED <<recIsCapturing, available, tempFile, outFile, captured>>
  /\ UNCHANGED <<captureVars, decision, pairVars, cycle, grabberArgs>>

\* The check's ffmpeg writes temp_check.jpg (-y: over any file there).
checkWrites(c) ==
  /\ recIsCapturing
  /\ checkProc[c] = "running"
  /\ checkProc' = [checkProc EXCEPT ![c] = "written"]
  /\ tempFile' = TRUE
  /\ UNCHANGED <<recIsCapturing, rpc, checkTimer, available, outFile, captured>>
  /\ UNCHANGED <<captureVars, decision, pairVars, cycle, grabberArgs>>

\* The check's ffmpeg exits: with status 0 after writing its frame, or with
\* an error.
checkExits(c) ==
  /\ recIsCapturing
  /\ \/ /\ checkProc[c] = "written"
        /\ checkProc' = [checkProc EXCEPT ![c] = "exited0"]
     \/ /\ checkProc[c] \in {"running", "written"}
        /\ checkProc' = [checkProc EXCEPT ![c] = "exitedErr"]
  /\ UNCHANGED <<recIsCapturing, rpc, checkTimer, available, tempFile, outFile, captured>>
  /\ UNCHANGED <<captureVars, decision, pairVars, cycle, grabberArgs>>

\* ffmpeg.on('close') of the check.
checkClose(c) ==
  /\ recIsCapturing
  /\ checkProc[c] \in {"exited0", "exitedErr", "killed"}
  /\ LET ok == CheckOutcome(checkProc[c], tempFile)
         res == Resolve(available[c], IF ok THEN "true" ELSE "false")
     IN /\ tempFile' = IF ok THEN FALSE ELSE tempFile
        /\ available' = [available EXCEPT ![c] = res]
        /\ ResumeCaptureFrame(c, available[c], res)
  /\ checkProc' = [checkProc EXCEPT ![c] = "closed"]
  /\ UNCHANGED <<recIsCapturing, checkTimer, outFile, captured>>
  /\ UNCHANGED <<captureVars, decision, pairVars, cycle, grabberArgs>>

\* The check's setTimeout fires (it is never cleared).
checkTimeout(c) ==
  /\ recIsCapturing
  /\ checkTimer[c]
  /\ checkTimer' = [checkTimer EXCEPT ![c] = FALSE]
  /\ checkProc' = [checkProc EXCEPT ![c] = Kill(@)]
  /\ LET res == Resolve(available[c], "false")
     IN /\ available' = [available EXCEPT ![c] = res]
        /\ ResumeCaptureFrame(c, available[c], res)
  /\ UNCHANGED <<recIsCapturing, tempFile, outFile, captured>>
  /\ UNCHANGED <<captureVars, decision, pairVars, cycle, grabberArgs>>

\* ffmpeg.on('close') of the capture: it reports by the exit status alone and
\* leaves whatever the process wrote at outputPath.
recorderCaptureClose(c) ==
  /\ recIsCapturing
  /\ rpc[c] = "capturing"
  /\ \E code \in {0, 1}, wrote \in BOOLEAN :
       /\ outFile' = [outFile EXCEPT ![c] = wrote]
       /\ captured' = [captured EXCEPT ![c] = IF code = 0 THEN "captured" ELSE "failed"]
  /\ rpc' = [rpc EXCEPT ![c] = "done"]
  /\ UNCHANGED <<recIsCapturing, checkProc, checkTimer, available, tempFile>>
  /\ UNCHANGED <<captureVars, decision, pairVars, cycle, grabberArgs>>

\* stopCapture(): isCapturing = false, the intervals are cleared and
\* process.exit(0) ends every handler.
recorderStopCapture ==
  /\ recIsCapturing
  /\ recIsCapturing' = FALSE
  /\ UNCHANGED <<rpc, checkProc, checkTimer, available, tempFile, outFile, captured>>
  /\ UNCHANGED <<captureVars, decision, pairVars, cycle, grabberArgs>>

\* After the module body has run: startCapture() has invoked captureFrame for
\* the configured stream, which awaits its availability check.
RecorderInit ==
  /\ recIsCapturing = TRUE
  /\ rpc = [c \in Invocations |-> IF c = 1 THEN "checking" ELSE "idle"]
  /\ checkProc = [c \in Invocations |-> IF c = 1 THEN "running" ELSE "none"]
  /\ checkTimer = [c \in Invocations |-> c = 1]
  /\ available = [c \in Invocations |-> "pending"]
  /\ tempFile = FALSE
  /\ outFile = [c \in Invocations |-> FALSE]
  /\ captured = [c \in Invocations |-> "none"]

RecorderNext ==
  \/ \E c \in Invocations : recorderCaptureFrame(c)
  \/ \E c \in Invocations : checkWrites(c)
  \/ \E c \in Invocations : checkExits(c)
  \/ \E c \in Invocations : checkClose(c)
  \/ \E c \in Invocations : checkTimeout(c)
  \/ \E c \in Invocations : recorderCaptureClose(c)
  \/ recorderStopCapture

\* ---------------------------------------------------------- specifications
Init ==
  /\ CaptureInit
  /\ decision = NoDecision
  /\ PairInit
  /\ RecorderInit
  /\ cycle = NoCycle
  /\ grabberArgs = NoArgs

\* stream-frame-capture.js: the loops of all streams and the stop command.
Next ==
  \/ \E s \in Streams : captureFrameClose(s)
  \/ \E s \in Streams : captureWithRetryTimer(s)
  \/ \E s \in Streams : captureAndSchedule(s)
  \/ stopCapture

Spec == Init /\ [][Next]_vars

\* Timers that are due fire: Node's event loop runs every expired timer.
TimerFairness ==
  \A s \in Streams : WF_vars(captureWithRetryTimer(s)) /\ WF_vars(captureAndSchedule(s))

\* Every ffmpeg eventually exits (an assumption about the grabber, not
\* something the program enforces).
GrabberFairness == \A s \in Streams : WF_vars(captureFrameClose(s))

TimerFairSpec == Init /\ [][Next]_vars /\ TimerFairness
LiveSpec == Init /\ [][Next]_vars /\ TimerFairness /\ GrabberFairness

CalendarSpec == Init /\ [][CalendarNext]_vars
PairSpec == Init /\ [][PairNext]_vars
RecorderSpec == Init /\ [][RecorderNext]_vars
CycleSpec == Init /\ [][CycleNext]_vars
QualitySpec == Init /\ [][QualityNext]_vars

\* ================================================================ properties
InProgress(s) == pc[s] \in {"grabbing", "retrywait"}

\* C1: once isCapturing is false, no loop issues another
\* setTimeout(captureAndSchedule, ...): no stream's count of pending
\* next-cycle timers grows in a step taken with the flag already false.
C1_NoScheduleAfterStop ==
  [][~isCapturing => \A s \in Streams : timers'[s] <= timers[s]]_vars

\* C2: a stream never has two ffmpeg processes running, never two pending
\* next-cycle timers, and never a cycle in progress together with a pending
\* next-cycle timer; a process runs only inside the cycle in progress.
C2_OneAtATime ==
  \A s \in Streams :
    /\ procs[s] <= 1
    /\ timers[s] <= 1
    /\ ~(InProgress(s) /\ timers[s] > 0)
    /\ procs[s] = 1 => pc[s] = "grabbing"
    /\ timers[s] = 1 => pc[s] = "sleeping"

\* Two loops run side by side: one is in a retry attempt while another waits
\* for its next cycle.
C2_Witness ==
  \E s, t \in Streams :
    /\ s # t
    /\ pc[s] = "grabbing" /\ retries[s] > 0 /\ procs[s] = 1
    /\ pc[t] = "sleeping" /\ timers[t] = 1

\* C3: the delay given to stream 1 is the same in two runs that agree on the
\* clock and on stream 1's outcomes and differ only in the other streams'
\* outcomes.
C3_DelayIndependentOfOthers == runDelay[1] = runDelay[2]

\* C4: with isCapturing true throughout a cycle, captureWithRetry makes one
\* attempt more than the failures it has seen, never more than maxRetries + 1;
\* a cycle that ends in success after N failures made N + 1 attempts, a cycle
\* that ends in failure made exactly maxRetries + 1 attempts and then handed
\* over to the scheduler once (one pending timer, no process); consecutive
\* attempts are separated by retryDelay only.
C4_RetryBudget ==
  \A s \in Streams :
    isCapturing =>
      /\ attempts[s] = retries[s] + 1
      /\ attempts[s] <= maxRetries + 1
      /\ waited[s] = retries[s] * retryDelay
      /\ pc[s] = "sleeping" =>
           /\ procs[s] = 0 /\ timers[s] = 1
           /\ ~success[s] => attempts[s] = maxRetries + 1

\* A cycle that failed maxRetries + 1 times and a cycle that succeeded at its
\* third attempt.
C4_Witness ==
  \E s, t \in Streams :
    /\ isCapturing
    /\ pc[s] = "sleeping" /\ ~success[s] /\ attempts[s] = maxRetries + 1
    /\ pc[t] = "sleeping" /\ success[t] /\ attempts[t] = 3

\* C5: an attempt is reported successful exactly when ffmpeg exited with
\* status 0 and the output file exists, and after an attempt reported as
\* failed no file is left at its output path.  (The recorder reports
\* "captured" for exit status 0.)
C5_OutcomeMatchesFile ==
  \A c \in Invocations :
    /\ captured[c] = "captured" => outFile[c]
    /\ captured[c] = "failed" => ~outFile[c]

\* The same property of stream-frame-capture.js's close handler: a completed
\* cycle leaves a file exactly when it succeeded, and a failed attempt leaves
\* none.
CaptureCloseRemovesPartialFile ==
  \A s \in Streams :
    /\ pc[s] = "sleeping" /\ isCapturing => (fileExists[s] <=> success[s])
    /\ pc[s] = "retrywait" => ~fileExists[s]

\* The maximum backoff: one hour.
maxBackoff == 60 * 60000

\* C6: every delay handed to the next-cycle timer lies between 0 and the
\* maximum backoff.
C6_DelayInRange ==
  decision.made => decision.delay >= 0 /\ decision.delay <= maxBackoff

\* C7: while isCapturing stays true every cycle that ends, in success or with
\* its retries exhausted, leaves exactly one next-cycle timer pending, and
\* every stream starts capture attempts again and again.
C7_LoopNeverHalts ==
  /\ [][\A s \in Streams :
          (isCapturing /\ InProgress(s) /\ ~InProgress(s)')
            => (pc'[s] = "sleeping" /\ timers'[s] = 1)]_vars
  /\ \A s \in Streams :
       /\ []<>(~isCapturing \/ pc[s] = "grabbing")
       /\ []<>(~isCapturing \/ pc[s] # "grabbing")

\* Every stream has exhausted its retries and waits for its next cycle.
C7_Witness ==
  /\ isCapturing
  /\ postWorkingHoursCheckCount > 0
  /\ \A s \in Streams : pc[s] = "sleeping" /\ ~success[s] /\ timers[s] = 1

\* C8: after the stop command every loop eventually terminates with no
\* process running and no timer pending, whether or not its ffmpeg exits on
\* its own.
C8_StopTerminates ==
  ~isCapturing ~> (\A s \in Streams : pc[s] = "done" /\ procs[s] = 0 /\ timers[s] = 0)

\* C9: when the check's timer fires before the close event has been handled,
\* the process is no longer running and the check's result is failure; a
\* settled result never changes, whichever handler runs later.
C9_TimeoutIsFailure ==
  [][\A c \in Invocations :
       /\ (checkTimer[c] /\ ~checkTimer'[c] /\ checkProc[c] # "closed")
            => (available'[c] = "false" /\ checkProc'[c] \notin {"running", "written"})
       /\ available[c] # "pending" => available'[c] = available[c]]_vars

\* The timer has fired while a close event reporting status 0, with the test
\* frame present, is still to be handled.
C9_Witness ==
  \E c \in Invocations :
    /\ ~checkTimer[c] /\ checkProc[c] = "exited0" /\ tempFile
    /\ available[c] = "false"

\* The wall clock of the target zone (UTC+3) at instant now, and the time
\* from now to 10:00 of the next day there.
KharkivMinutes(now) == now + kharkivOffset
KharkivDay(now) == (KharkivMinutes(now) \div minutesPerDay) % 7
KharkivHour(now) == (KharkivMinutes(now) % minutesPerDay) \div 60
MsUntilNextMorning(now) ==
  (((KharkivMinutes(now) \div minutesPerDay) + 1) * minutesPerDay + morningCheckTime * 60
     - KharkivMinutes(now)) * msPerMinute

\* C10: on a working day at or after workingHoursEnd the delay chosen after a
\* failed cycle is the time from now to 10:00 of the next day in the target
\* zone, whatever the counter and the host's zone.
C10_AfterHoursUntilMorning ==
  (decision.made /\ ~decision.ok /\ KharkivDay(decision.now) # 1
     /\ KharkivHour(decision.now) >= workingHoursEnd)
    => decision.delay = MsUntilNextMorning(decision.now)

\* The minute of the hour in the target zone, and whether an instant lies in
\* the working hours of a working day there.
KharkivMinute(now) == KharkivMinutes(now) % 60
InWorkingHours(now) ==
  /\ KharkivDay(now) # 1
  /\ KharkivHour(now) >= workingHoursStart
  /\ KharkivHour(now) < workingHoursEnd

\* C11: during the working hours of a working day, the delay scheduled after
\* a cycle whose initial attempt and maxRetries retries all failed is strictly
\* greater than the steady interval.
C11_BackedOffAfterExhaustion ==
  (decision.made /\ ~decision.ok /\ InWorkingHours(decision.now))
    => decision.delay > captureInterval

\* C12: of two failed cycles in a row at the same calendar position, the later
\* one is given a delay that is not smaller, and the same delay once the
\* maximum backoff has been reached.
C12_BackoffMonotone ==
  [][(/\ decision.made /\ ~decision.ok /\ ~decision'.ok
      /\ decision'.now = decision.now /\ decision'.tz = decision.tz)
       => /\ decision'.delay >= decision.delay
          /\ decision.delay >= maxBackoff => decision'.delay = decision.delay]_vars

\* C13: a call of getNextCheckTime() returns what a call at the same clock
\* reading returns in a program that made no call before, and leaves
\* postWorkingHoursCheckCount as it found it.
C13_PolicyIsPure ==
  (decision.made /\ ~decision.ok)
    => /\ decision.delay = getNextCheckTime(decision.now, decision.tz, 0).delay
       /\ postWorkingHoursCheckCount = decision.countBefore

\* C14: on Monday before workingHoursEnd getNextCheckTime() returns exactly
\* one hour, and no cycle that ends then is followed by the next capture in
\* less than one hour.
C14_MondayHourly ==
  (decision.made /\ KharkivDay(decision.now) = 1
     /\ KharkivHour(decision.now) < workingHoursEnd)
    => /\ ~decision.ok => decision.delay = 3600000
       /\ decision.delay >= 3600000

\* C15: on a working day, at every hour from workingHoursStart to
\* workingHoursEnd - 1 and every minute, getNextCheckTime() returns exactly
\* captureInterval (whatever the counter, so also with no failure before).
C15_SteadyInWorkingHours ==
  (decision.made /\ ~decision.ok /\ InWorkingHours(decision.now))
    => decision.delay = captureInterval

\* A failed cycle at 14:00 on Tuesday in the target zone, with no failure
\* before, on a host that is not in the target zone.
C15_Witness ==
  /\ decision.made /\ ~decision.ok /\ decision.countBefore = 0
  /\ KharkivDay(decision.now) = 2 /\ KharkivHour(decision.now) = 14
  /\ KharkivMinute(decision.now) = 0
  /\ decision.tz = 300
  /\ decision.delay = 60000

\* C17: on a working day from morningCheckTime to workingHoursStart the delay
\* returned by getNextCheckTime() is at most the time left until
\* workingHoursStart.
C17_NotPastStart ==
  (/\ decision.made /\ ~decision.ok /\ KharkivDay(decision.now) # 1
   /\ KharkivHour(decision.now) >= morningCheckTime
   /\ KharkivHour(decision.now) < workingHoursStart)
    => decision.delay <=
         ((workingHoursStart - KharkivHour(decision.now)) * 60 - KharkivMinute(decision.now))
           * msPerMinute

\* The larger of two numbers.
Max(a, b) == IF a >= b THEN a ELSE b

\* C16: after a cycle that succeeded (at its first attempt or at a retry), the
\* delay to the next cycle is max(0, captureInterval - elapsed) when the clock
\* reads working hours of a working day in the target zone, and otherwise the
\* delay getNextCheckTime() gives for that reading with the counter at 0.
C16_DelayAfterSuccess ==
  (cycle.made /\ cycle.ok)
    => cycle.delay = IF InWorkingHours(cycle.now)
                     THEN Max(0, captureInterval - cycle.elapsed)
                     ELSE getNextCheckTime(cycle.now, cycle.tz, 0).delay

\* C18: an availability check whose ffmpeg exited with status 0 after writing
\* its test frame, and whose result is still open when its close event is
\* handled, is found available: no other check has removed its frame.
C18_ChecksDoNotInterfere ==
  [][\A c \in Invocations :
       (checkProc[c] = "exited0" /\ checkProc'[c] = "closed" /\ available[c] = "pending")
         => available'[c] = "true"]_vars

\* C19: in a step taken with isCapturing already false no stream gets a new
\* ffmpeg process or a new attempt, and a step that ends no process leaves
\* every stream's output path as it was.
C19_NoSpawnAfterStop ==
  [][~isCapturing =>
       \A s \in Streams :
         /\ procs'[s] <= procs[s]
         /\ attempts'[s] = attempts[s]
         /\ procs'[s] = procs[s] => fileExists'[s] = fileExists[s]]_vars

\* After the stop a retry timer has fired part-way through a cycle: the call
\* of captureFrame was counted as a retry and spawned nothing.
C19_Witness ==
  \E s \in Streams :
    /\ ~isCapturing
    /\ retries[s] >= attempts[s]
    /\ retries[s] < maxRetries
    /\ pc[s] = "retrywait"
    /\ procs[s] = 0

\* The point of 0..100 nearest to q, and the integer n with
\* n - 1/2 <= x < n + 1/2 for x = ((100 - q') / 100) * (31 - 2) + 2.
Distance(a, b) == IF a >= b THEN a - b ELSE b - a
Clamped(q) == CHOOSE c \in 0..100 : \A d \in 0..100 : Distance(c, q) <= Distance(d, q)
RoundedNative(q) ==
  CHOOSE n \in 0..40 :
    /\ 200 * n - 100 <= (100 - Clamped(q)) * 2 * (31 - 2) + 2 * 200
    /\ (100 - Clamped(q)) * 2 * (31 - 2) + 2 * 200 < 200 * n + 100

\* The part of C20 about the function alone.
ConversionIsRoundedInversion ==
  LET q == grabberArgs.quality
  IN /\ convertJpegQuality(q) = RoundedNative(q)
     /\ convertJpegQuality(q) \in 2..31
     /\ q = 100 => convertJpegQuality(q) = 2
     /\ q = 0 => convertJpegQuality(q) = 31

\* C20: for every quality q, convertJpegQuality(q) is the rounded linear
\* inversion of q clamped to 0..100, lies in 2..31, is 2 for 100 and 31 for 0,
\* and it is the value handed to ffmpeg as '-q:v' by every capture.
C20_QualityConverted ==
  grabberArgs.by # "none"
    => /\ ConversionIsRoundedInversion
       /\ grabberArgs.qv = convertJpegQuality(grabberArgs.quality)

====
